---- MODULE Spec2Model ----
(***************************************************************************)
(* Model of the golang-api request dispatcher: the route table             *)
(* (Server.Handle, Router.FindHandler, Router.ServeHTTP), the middleware   *)
(* chaining of Server.AddMiddleware and the middleware set of              *)
(* middleware.go.  Strings are TLA+ strings; Go's strings package is       *)
(* modelled by operators over Len / SubSeq / \o.                           *)
(***************************************************************************)
EXTENDS Integers, Sequences, FiniteSets, TLC

VARIABLES
    rules,      \* Router.rules: path -> (method -> handler)
    serving,    \* TRUE once Server.Listen has started the server
    op,         \* the operation performed last, with its arguments
    w,          \* the http.ResponseWriter of the request served last
    trace,      \* what ran while serving that request, in order
    fault,      \* TRUE when that request ended in an unrecovered panic
    requests,   \* RateLimit: the closure's map clientIP -> count
    lastReset,  \* RateLimit: the closure's window start
    now,        \* the clock read by time.Now / time.Since, in seconds
    registered, \* history: the <<method, path, middlewares>> of each registration
    window,     \* history: the requests seen in the limiter's current window
    tasks,      \* RateLimit: the goroutines that are inside the limiter's closure
    mapId,      \* RateLimit: which map the closure variable requests refers to
    sweeps      \* history: the window resets and the writes to discarded maps

\* What only concurrent requests through the limiter read and write.
raceVars == <<tasks, mapId, sweeps>>

vars == <<rules, serving, op, w, trace, fault, requests, lastReset, now,
          registered, window, tasks, mapId, sweeps>>

(***************************************************************************)
(* Bounds of the model.                                                    *)
(***************************************************************************)
MaxPathLen == 3     \* longest path string that is registered or requested
MaxRoutes == 2      \* most (path, method) pairs the route table holds
MaxChain == 3       \* most middlewares passed to one AddMiddleware call
MaxQuota == 2       \* largest requestsPerMinute a limiter is made with
MaxNow == 125       \* the clock stops advancing here (seconds)
MaxBurst == 3       \* most requests one client sends within one window
MaxTasks == 2       \* most requests that are inside the limiter at one time
MaxArrivals == 3    \* most requests that arrive at the limiter concurrently

(***************************************************************************)
(* Go's strings package.                                                   *)
(***************************************************************************)
HasPrefix(s, prefix) ==
    Len(s) >= Len(prefix) /\ SubSeq(s, 1, Len(prefix)) = prefix

HasSuffix(s, suffix) ==
    Len(s) >= Len(suffix) /\ SubSeq(s, Len(s) - Len(suffix) + 1, Len(s)) = suffix

TrimPrefix(s, prefix) ==
    IF HasPrefix(s, prefix) THEN SubSeq(s, Len(prefix) + 1, Len(s)) ELSE s

TrimSuffix(s, suffix) ==
    IF HasSuffix(s, suffix) THEN SubSeq(s, 1, Len(s) - Len(suffix)) ELSE s

RECURSIVE Join(_, _)
Join(elems, sep) ==
    IF Len(elems) = 0 THEN ""
    ELSE IF Len(elems) = 1 THEN elems[1]
    ELSE elems[1] \o sep \o Join(Tail(elems), sep)

(***************************************************************************)
(* Go maps: a map is a function; indexing an absent key (or a nil map)     *)
(* yields the zero value.                                                  *)
(***************************************************************************)
EmptyMap == [k \in {} |-> k]

MapSet(m, key, value) ==
    [k \in DOMAIN m \cup {key} |-> IF k = key THEN value ELSE m[k]]

(***************************************************************************)
(* Handlers.  An http.HandlerFunc is a terminal handler wrapped in the     *)
(* middleware applied to it so far (innermost first); Nil is the zero      *)
(* value of the type.                                                      *)
(***************************************************************************)
Nil == [term |-> "nil", layers |-> <<>>]

Terminal(name) == [term |-> name, layers |-> <<>>]

Handlers == {Terminal("h1"), Terminal("h2")}

Methods == {"GET", "POST"}

Alphabet == {"/", "a"}

RECURSIVE StringsOfLen(_)
StringsOfLen(n) ==
    IF n = 0 THEN {""}
    ELSE {p \o c : p \in StringsOfLen(n - 1), c \in Alphabet}

\* The paths registered and requested: the empty path and the paths that
\* start with a separator, up to MaxPathLen characters.
Paths == {""} \cup UNION {{"/" \o q : q \in StringsOfLen(n)} : n \in 0..(MaxPathLen - 1)}

(***************************************************************************)
(* router: normalizePath, FindHandler, getAllowedMethods.                  *)
(***************************************************************************)
\* Mutant: the trailing separator is kept.
normalizePath_keepsSlash(path) == path

normalizePath(path) ==
    IF Len(path) > 1 /\ HasSuffix(path, "/")
    THEN TrimSuffix(path, "/")
    ELSE path

\* Mutant: the path is looked up as given, the method under the normalized path.
FindHandler_rawPathCheck(rs, path, method) ==
    LET p == normalizePath(path)
        pathExists == path \in DOMAIN rs
        pathRules == IF p \in DOMAIN rs THEN rs[p] ELSE EmptyMap
        methodExists == method \in DOMAIN pathRules
        handler == IF methodExists THEN pathRules[method] ELSE Nil
    IN  [handler |-> handler, methodExists |-> methodExists,
         pathExists |-> pathExists]

FindHandler(rs, path, method) ==
    LET p == normalizePath(path)
        pathExists == p \in DOMAIN rs
        pathRules == IF pathExists THEN rs[p] ELSE EmptyMap
        methodExists == method \in DOMAIN pathRules
        handler == IF methodExists THEN pathRules[method] ELSE Nil
    IN  [handler |-> handler, methodExists |-> methodExists,
         pathExists |-> pathExists]

\* The orders in which ranging over a Go map may yield its keys.
KeyOrders(m) ==
    {s \in [1..Cardinality(DOMAIN m) -> DOMAIN m] :
        \A i, j \in DOMAIN s : i # j => s[i] # s[j]}

\* Mutant: the path is not normalized before the lookup.
getAllowedMethods_rawPath(rs, path, order) ==
    LET methods == IF path \in DOMAIN rs THEN order ELSE <<>>
    IN  Join(methods, ", ")

getAllowedMethods(rs, path, order) ==
    LET p == normalizePath(path)
        methods == IF p \in DOMAIN rs THEN order ELSE <<>>
    IN  Join(methods, ", ")

(***************************************************************************)
(* server: Handle.                                                         *)
(***************************************************************************)
\* Mutant: the path's method map is made anew on every registration.
Handle_remakesMap(rs, method, path, handler) ==
    MapSet(rs, normalizePath(path), MapSet(EmptyMap, method, handler))

Handle(rs, method, path, handler) ==
    LET p == normalizePath(path)
        pathRules == IF p \in DOMAIN rs THEN rs[p] ELSE EmptyMap
    IN  MapSet(rs, p, MapSet(pathRules, method, handler))

(***************************************************************************)
(* http.ResponseWriter.  The status line and the header map are sent by    *)
(* the first WriteHeader (or the first Write); later WriteHeader calls and *)
(* later changes of the header map do not reach the client.                *)
(***************************************************************************)
NewWriter == [header |-> EmptyMap, status |-> 0, sent |-> EmptyMap, body |-> <<>>]

HeaderSet(wr, key, value) == [wr EXCEPT !.header = MapSet(@, key, value)]

WriteHeader(wr, statusCode) ==
    IF wr.status # 0 THEN wr
    ELSE [wr EXCEPT !.status = statusCode, !.sent = wr.header]

StatusOK == 200
StatusUnauthorized == 401
StatusNotFound == 404
StatusMethodNotAllowed == 405
StatusTooManyRequests == 429
StatusInternalServerError == 500

Write(wr, data) ==
    LET w1 == WriteHeader(wr, StatusOK)
    IN  [w1 EXCEPT !.body = Append(@, data)]

(***************************************************************************)
(* response: the JSON envelope and its helpers.                            *)
(***************************************************************************)
APIResponse(success, message, error) ==
    [success |-> success, message |-> message, error |-> error]

JSON(wr, statusCode, data) ==
    Write(WriteHeader(HeaderSet(wr, "Content-Type", "application/json"),
                      statusCode), data)

Success(wr, message) == JSON(wr, StatusOK, APIResponse(TRUE, message, ""))

NotFound(wr, message) == JSON(wr, StatusNotFound, APIResponse(FALSE, "", message))

Unauthorized(wr, message) ==
    JSON(wr, StatusUnauthorized, APIResponse(FALSE, "", message))

InternalError(wr, message) ==
    JSON(wr, StatusInternalServerError, APIResponse(FALSE, "", message))

(***************************************************************************)
(* Serving one request.  A context x carries what the call chain reads and *)
(* writes: the response writer, the trace of events, the limiter's closure *)
(* variables, the clock, and panic = TRUE while a panic unwinds the stack. *)
(***************************************************************************)
Request(method, path, remoteAddr, authorization) ==
    [method |-> method, path |-> path, remoteAddr |-> remoteAddr,
     authorization |-> authorization]

Context(wr, reqs, reset, clock) ==
    [w |-> wr, trace |-> <<>>, panic |-> FALSE,
     requests |-> reqs, lastReset |-> reset, now |-> clock]

Event(layer, who, ev) == [layer |-> layer, who |-> who, ev |-> ev]

LogEvent(layer, who, text) == [layer |-> layer, who |-> who, ev |-> "log", text |-> text]

Emit(x, e) == [x EXCEPT !.trace = Append(@, e)]

min(a, b) == IF a < b THEN a ELSE b

\* A terminal handler: it answers with its own success envelope.  Calling
\* the nil http.HandlerFunc panics; the handler "faulting" panics after it
\* has written its response.
RunTerminal(name, req, x) ==
    IF name = "nil"
    THEN [Emit(x, Event(0, name, "panic")) EXCEPT !.panic = TRUE]
    ELSE LET x1 == Emit(x, Event(0, name, "call"))
             x2 == [x1 EXCEPT !.w = Success(x1.w, name)]
         IN  IF name = "faulting"
             THEN [Emit(x2, Event(0, name, "raise")) EXCEPT !.panic = TRUE]
             ELSE x2

Minute == 60

RECURSIVE RunFrom(_, _, _, _)

\* Logging: start entry, next, completion entry (not deferred).
Logging(h, i, req, x) ==
    LET x1 == Emit(Emit(x, Event(i, "Logging", "pre")),
                   LogEvent(i, "Logging", "Started " \o req.method \o " " \o req.path
                                          \o " from " \o req.remoteAddr))
        x2 == RunFrom(h, i - 1, req, x1)
    IN  IF x2.panic THEN x2
        ELSE Emit(Emit(x2, LogEvent(i, "Logging", "Completed " \o req.method \o " "
                                                   \o req.path)),
                  Event(i, "Logging", "post"))

\* Mutant: every non-empty bearer token is accepted.
RequireAuth_anyToken(h, i, req, x) ==
    LET x1 == Emit(x, Event(i, "RequireAuth", "pre"))
        authHeader == req.authorization
        token == TrimPrefix(authHeader, "Bearer ")
        reject(message) ==
            Emit([x1 EXCEPT !.w = Unauthorized(x1.w, message)],
                 Event(i, "RequireAuth", "short"))
    IN  IF authHeader = "" THEN reject("Missing Authorization header")
        ELSE IF ~HasPrefix(authHeader, "Bearer ")
        THEN reject("Invalid authorization format. Use: Bearer <token>")
        ELSE IF token = "" THEN reject("Empty token")
        ELSE LET x2 == Emit(x1, LogEvent(i, "RequireAuth",
                              "Authenticated request with token: "
                              \o SubSeq(token, 1, min(10, Len(token))) \o "..."))
                 x3 == RunFrom(h, i - 1, req, x2)
             IN  IF x3.panic THEN x3 ELSE Emit(x3, Event(i, "RequireAuth", "post"))

\* RequireAuth: four early returns, else log a token preview and call next.
RequireAuth(h, i, req, x) ==
    LET x1 == Emit(x, Event(i, "RequireAuth", "pre"))
        authHeader == req.authorization
        token == TrimPrefix(authHeader, "Bearer ")
        reject(message) ==
            Emit([x1 EXCEPT !.w = Unauthorized(x1.w, message)],
                 Event(i, "RequireAuth", "short"))
    IN  IF authHeader = "" THEN reject("Missing Authorization header")
        ELSE IF ~HasPrefix(authHeader, "Bearer ")
        THEN reject("Invalid authorization format. Use: Bearer <token>")
        ELSE IF token = "" THEN reject("Empty token")
        ELSE IF token # "demo-token" /\ ~HasPrefix(token, "valid-")
        THEN reject("Invalid token")
        ELSE LET x2 == Emit(x1, LogEvent(i, "RequireAuth",
                              "Authenticated request with token: "
                              \o SubSeq(token, 1, min(10, Len(token))) \o "..."))
                 x3 == RunFrom(h, i - 1, req, x2)
             IN  IF x3.panic THEN x3 ELSE Emit(x3, Event(i, "RequireAuth", "post"))

\* Mutant: the preflight answer is not followed by a return.
CORS_preflightFallsThrough(h, i, req, x) ==
    LET x1 == Emit(x, Event(i, "CORS", "pre"))
        w1 == HeaderSet(x1.w, "Access-Control-Allow-Origin", "*")
        w2 == HeaderSet(w1, "Access-Control-Allow-Methods",
                        "GET, POST, PUT, DELETE, OPTIONS")
        w3 == HeaderSet(w2, "Access-Control-Allow-Headers",
                        "Content-Type, Authorization")
        x2 == [x1 EXCEPT !.w = w3]
        x3 == IF req.method = "OPTIONS"
              THEN Emit([x2 EXCEPT !.w = WriteHeader(x2.w, StatusOK)],
                        Event(i, "CORS", "short"))
              ELSE x2
        x4 == RunFrom(h, i - 1, req, x3)
    IN  IF x4.panic THEN x4 ELSE Emit(x4, Event(i, "CORS", "post"))

\* CORS: three headers, then 200 for OPTIONS, else next.
CORS(h, i, req, x) ==
    LET x1 == Emit(x, Event(i, "CORS", "pre"))
        w1 == HeaderSet(x1.w, "Access-Control-Allow-Origin", "*")
        w2 == HeaderSet(w1, "Access-Control-Allow-Methods",
                        "GET, POST, PUT, DELETE, OPTIONS")
        w3 == HeaderSet(w2, "Access-Control-Allow-Headers",
                        "Content-Type, Authorization")
        x2 == [x1 EXCEPT !.w = w3]
    IN  IF req.method = "OPTIONS"
        THEN Emit([x2 EXCEPT !.w = WriteHeader(x2.w, StatusOK)],
                  Event(i, "CORS", "short"))
        ELSE LET x3 == RunFrom(h, i - 1, req, x2)
             IN  IF x3.panic THEN x3 ELSE Emit(x3, Event(i, "CORS", "post"))

\* Mutant: the deferred function answers 500 whether or not recover()
\* returned a panic value.
RecoverPanic_alwaysAnswers(h, i, req, x) ==
    LET x1 == Emit(x, Event(i, "RecoverPanic", "pre"))
        x2 == RunFrom(h, i - 1, req, x1)
        x3 == IF x2.panic
              THEN Emit(x2, LogEvent(i, "RecoverPanic", "PANIC recovered"))
              ELSE Emit(x2, Event(i, "RecoverPanic", "post"))
    IN  [x3 EXCEPT !.panic = FALSE,
                   !.w = InternalError(x3.w, "An unexpected error occurred")]

\* RecoverPanic: a deferred recover around next.
RecoverPanic(h, i, req, x) ==
    LET x1 == Emit(x, Event(i, "RecoverPanic", "pre"))
        x2 == RunFrom(h, i - 1, req, x1)
    IN  IF x2.panic
        THEN LET x3 == Emit(x2, LogEvent(i, "RecoverPanic", "PANIC recovered"))
             IN  [x3 EXCEPT !.panic = FALSE,
                            !.w = InternalError(x3.w, "An unexpected error occurred")]
        ELSE Emit(x2, Event(i, "RecoverPanic", "post"))

\* Mutant: a client at its quota is let through once more.
RateLimit_offByOne(requestsPerMinute, h, i, req, x) ==
    LET x1 == Emit(x, Event(i, "RateLimit", "pre"))
        x2 == IF x1.now - x1.lastReset > Minute
              THEN [x1 EXCEPT !.requests = EmptyMap, !.lastReset = x1.now]
              ELSE x1
        clientIP == req.remoteAddr
        count == IF clientIP \in DOMAIN x2.requests THEN x2.requests[clientIP] ELSE 0
    IN  IF count > requestsPerMinute
        THEN Emit([x2 EXCEPT !.w = JSON(HeaderSet(x2.w, "Retry-After", "60"),
                                        StatusTooManyRequests,
                                        APIResponse(FALSE, "",
                                          "Rate limit exceeded. Please try again later."))],
                  Event(i, "RateLimit", "short"))
        ELSE LET x3 == [x2 EXCEPT !.requests = MapSet(@, clientIP, count + 1)]
                 x4 == RunFrom(h, i - 1, req, x3)
             IN  IF x4.panic THEN x4 ELSE Emit(x4, Event(i, "RateLimit", "post"))

\* Mutant: the 429 answer is not followed by a return.
RateLimit_rejectFallsThrough(requestsPerMinute, h, i, req, x) ==
    LET x1 == Emit(x, Event(i, "RateLimit", "pre"))
        x2 == IF x1.now - x1.lastReset > Minute
              THEN [x1 EXCEPT !.requests = EmptyMap, !.lastReset = x1.now]
              ELSE x1
        clientIP == req.remoteAddr
        count == IF clientIP \in DOMAIN x2.requests THEN x2.requests[clientIP] ELSE 0
        x3 == IF count >= requestsPerMinute
              THEN Emit([x2 EXCEPT !.w = JSON(HeaderSet(x2.w, "Retry-After", "60"),
                                              StatusTooManyRequests,
                                              APIResponse(FALSE, "",
                                                "Rate limit exceeded. Please try again later."))],
                        Event(i, "RateLimit", "short"))
              ELSE x2
        x4 == [x3 EXCEPT !.requests = MapSet(@, clientIP, count + 1)]
        x5 == RunFrom(h, i - 1, req, x4)
    IN  IF x5.panic THEN x5 ELSE Emit(x5, Event(i, "RateLimit", "post"))

\* Mutant: the window is reset as soon as one minute has elapsed.
RateLimit_resetAtMinute(requestsPerMinute, h, i, req, x) ==
    LET x1 == Emit(x, Event(i, "RateLimit", "pre"))
        x2 == IF x1.now - x1.lastReset >= Minute
              THEN [x1 EXCEPT !.requests = EmptyMap, !.lastReset = x1.now]
              ELSE x1
        clientIP == req.remoteAddr
        count == IF clientIP \in DOMAIN x2.requests THEN x2.requests[clientIP] ELSE 0
    IN  IF count >= requestsPerMinute
        THEN Emit([x2 EXCEPT !.w = JSON(HeaderSet(x2.w, "Retry-After", "60"),
                                        StatusTooManyRequests,
                                        APIResponse(FALSE, "",
                                          "Rate limit exceeded. Please try again later."))],
                  Event(i, "RateLimit", "short"))
        ELSE LET x3 == [x2 EXCEPT !.requests = MapSet(@, clientIP, count + 1)]
                 x4 == RunFrom(h, i - 1, req, x3)
             IN  IF x4.panic THEN x4 ELSE Emit(x4, Event(i, "RateLimit", "post"))

\* Mutant: the count is incremented before the quota check, so rejected
\* requests are counted too.
RateLimit_countsRejected(requestsPerMinute, h, i, req, x) ==
    LET x1 == Emit(x, Event(i, "RateLimit", "pre"))
        x2 == IF x1.now - x1.lastReset > Minute
              THEN [x1 EXCEPT !.requests = EmptyMap, !.lastReset = x1.now]
              ELSE x1
        clientIP == req.remoteAddr
        count == IF clientIP \in DOMAIN x2.requests THEN x2.requests[clientIP] ELSE 0
        x3 == [x2 EXCEPT !.requests = MapSet(@, clientIP, count + 1)]
    IN  IF count >= requestsPerMinute
        THEN Emit([x3 EXCEPT !.w = JSON(HeaderSet(x3.w, "Retry-After", "60"),
                                        StatusTooManyRequests,
                                        APIResponse(FALSE, "",
                                          "Rate limit exceeded. Please try again later."))],
                  Event(i, "RateLimit", "short"))
        ELSE LET x4 == RunFrom(h, i - 1, req, x3)
             IN  IF x4.panic THEN x4 ELSE Emit(x4, Event(i, "RateLimit", "post"))

\* RateLimit(requestsPerMinute): window reset, quota check, increment, next.
RateLimit(requestsPerMinute, h, i, req, x) ==
    LET x1 == Emit(x, Event(i, "RateLimit", "pre"))
        x2 == IF x1.now - x1.lastReset > Minute
              THEN [x1 EXCEPT !.requests = EmptyMap, !.lastReset = x1.now]
              ELSE x1
        clientIP == req.remoteAddr
        count == IF clientIP \in DOMAIN x2.requests THEN x2.requests[clientIP] ELSE 0
    IN  IF count >= requestsPerMinute
        THEN Emit([x2 EXCEPT !.w = JSON(HeaderSet(x2.w, "Retry-After", "60"),
                                        StatusTooManyRequests,
                                        APIResponse(FALSE, "",
                                          "Rate limit exceeded. Please try again later."))],
                  Event(i, "RateLimit", "short"))
        ELSE LET x3 == [x2 EXCEPT !.requests = MapSet(@, clientIP, count + 1)]
                 x4 == RunFrom(h, i - 1, req, x3)
             IN  IF x4.panic THEN x4 ELSE Emit(x4, Event(i, "RateLimit", "post"))

\* Calling the handler whose outermost remaining layer is layers[i].
RunFrom(h, i, req, x) ==
    IF i = 0 THEN RunTerminal(h.term, req, x)
    ELSE LET m == h.layers[i]
         IN  CASE m.kind = "Logging" -> Logging(h, i, req, x)
               [] m.kind = "RequireAuth" -> RequireAuth(h, i, req, x)
               [] m.kind = "CORS" -> CORS(h, i, req, x)
               [] m.kind = "RecoverPanic" -> RecoverPanic(h, i, req, x)
               [] m.kind = "RateLimit" -> RateLimit(m.quota, h, i, req, x)

Call(h, req, x) == RunFrom(h, Len(h.layers), req, x)

(***************************************************************************)
(* server: AddMiddleware.  Each middleware wraps the previous result.      *)
(***************************************************************************)
\* middleware(handler): a new handler that closes over the one it wraps.
Wrap(middleware, handler) == [handler EXCEPT !.layers = Append(@, middleware)]

\* Mutant: the middlewares are applied from the last to the first.
RECURSIVE AddMiddleware_lastFirst(_, _)
AddMiddleware_lastFirst(handler, middlewares) ==
    IF middlewares = <<>> THEN handler
    ELSE AddMiddleware_lastFirst(
             Wrap(middlewares[Len(middlewares)], handler),
             SubSeq(middlewares, 1, Len(middlewares) - 1))

RECURSIVE AddMiddleware(_, _)
AddMiddleware(handler, middlewares) ==
    IF middlewares = <<>> THEN handler
    ELSE AddMiddleware(Wrap(Head(middlewares), handler), Tail(middlewares))

(***************************************************************************)
(* router: ServeHTTP, the entry point of every request.  order is the      *)
(* order in which the range loop of getAllowedMethods visits the methods.  *)
(***************************************************************************)
\* Mutant: the method check comes before the path check.
ServeHTTP_methodFirst(rs, req, order, x) ==
    LET found == FindHandler(rs, req.path, req.method)
    IN  IF ~found.methodExists
        THEN Emit([x EXCEPT !.w =
                      JSON(HeaderSet(x.w, "Allow", getAllowedMethods(rs, req.path, order)),
                           StatusMethodNotAllowed,
                           APIResponse(FALSE, "", "method " \o req.method
                                                  \o " not allowed for this endpoint"))],
                  Event(0, "Router", "respond"))
        ELSE IF ~found.pathExists
        THEN Emit([x EXCEPT !.w = NotFound(x.w, "endpoint not found: " \o req.path)],
                  Event(0, "Router", "respond"))
        ELSE Call(found.handler, req, x)

\* Mutant: the router writes the status line itself before it delegates.
ServeHTTP_writesStatus(rs, req, order, x) ==
    LET found == FindHandler(rs, req.path, req.method)
    IN  IF ~found.pathExists
        THEN Emit([x EXCEPT !.w = NotFound(x.w, "endpoint not found: " \o req.path)],
                  Event(0, "Router", "respond"))
        ELSE IF ~found.methodExists
        THEN Emit([x EXCEPT !.w =
                      JSON(HeaderSet(x.w, "Allow", getAllowedMethods(rs, req.path, order)),
                           StatusMethodNotAllowed,
                           APIResponse(FALSE, "", "method " \o req.method
                                                  \o " not allowed for this endpoint"))],
                  Event(0, "Router", "respond"))
        ELSE Call(found.handler, req, [x EXCEPT !.w = WriteHeader(x.w, StatusOK)])

ServeHTTP(rs, req, order, x) ==
    LET found == FindHandler(rs, req.path, req.method)
    IN  IF ~found.pathExists
        THEN Emit([x EXCEPT !.w = NotFound(x.w, "endpoint not found: " \o req.path)],
                  Event(0, "Router", "respond"))
        ELSE IF ~found.methodExists
        THEN Emit([x EXCEPT !.w =
                      JSON(HeaderSet(x.w, "Allow", getAllowedMethods(rs, req.path, order)),
                           StatusMethodNotAllowed,
                           APIResponse(FALSE, "", "method " \o req.method
                                                  \o " not allowed for this endpoint"))],
                  Event(0, "Router", "respond"))
        ELSE Call(found.handler, req, x)

(***************************************************************************)
(* The dispatcher as a state machine: main registers routes with           *)
(* Server.Handle, Server.Listen starts the server, then requests arrive.   *)
(***************************************************************************)
ReqMethods == Methods \cup {"OPTIONS"}

PathRules(rs, path) ==
    IF normalizePath(path) \in DOMAIN rs THEN rs[normalizePath(path)] ELSE EmptyMap

Operation(name, req, handler, found) ==
    [name |-> name, method |-> req.method, path |-> req.path,
     key |-> normalizePath(req.path), remoteAddr |-> req.remoteAddr,
     authorization |-> req.authorization, handler |-> handler, found |-> found]

NoRequest == Request("", "", "", "")

\* The history of one limiter window: when it started and, per client, how
\* many requests arrived in it and how many of them reached next.
NewWindow(start) == [start |-> start, seen |-> EmptyMap, passed |-> EmptyMap,
                     expired |-> FALSE, refused |-> {}]

Count(m, key) == IF key \in DOMAIN m THEN m[key] ELSE 0

\* The history after a request that arrives at time clock: a request later
\* than one minute after the window's start opens a new window; refused
\* remembers the clients that were turned away in the window before.
NextWindow(win, req, clock, forwarded) ==
    LET expired == clock - win.start > Minute
        base == IF expired
                THEN [NewWindow(clock) EXCEPT
                        !.refused = {c \in DOMAIN win.seen :
                                        win.seen[c] > Count(win.passed, c)}]
                ELSE win
        c == req.remoteAddr
    IN  [base EXCEPT !.seen = MapSet(@, c, Count(base.seen, c) + 1),
                     !.passed = IF forwarded
                                THEN MapSet(@, c, Count(base.passed, c) + 1)
                                ELSE @,
                     !.expired = expired]

\* A goroutine of the server that is not serving a request.
Idle == [pc |-> "idle", clientIP |-> "", elapsedFrom |-> 0, map |-> 0, count |-> 0,
         status |-> 0]

\* The history of the limiter's resets: the values of lastReset for which
\* the map was swept, whether one of them was swept twice, whether an
\* increment went to a map that had been discarded, and how many requests
\* have arrived.
NoSweeps == [swept |-> {}, twice |-> FALSE, discarded |-> FALSE, arrivals |-> 0]

Init ==
    /\ rules = EmptyMap
    /\ serving = FALSE
    /\ op = Operation("NewServer", NoRequest, Nil, FindHandler(EmptyMap, "", ""))
    /\ w = NewWriter
    /\ trace = <<>>
    /\ fault = FALSE
    /\ requests = EmptyMap
    /\ lastReset = 0
    /\ now = 0
    /\ registered = {}
    /\ window = NewWindow(0)
    /\ tasks = [t \in 1..MaxTasks |-> Idle]
    /\ mapId = 0
    /\ sweeps = NoSweeps

\* server.Handle(method, path, handler), before the server listens.
DoHandle(method, path, handler) ==
    /\ ~serving
    /\ Cardinality(registered \cup {<<method, path, <<>>>>}) <= MaxRoutes
    /\ registered' = registered \cup {<<method, path, <<>>>>}
    /\ rules' = Handle(rules, method, path, handler)
    /\ op' = Operation("Handle", Request(method, path, "", ""), handler,
                       FindHandler(rules, path, method))
    /\ UNCHANGED <<serving, w, trace, fault, requests, lastReset, now, window>>
    /\ UNCHANGED raceVars

\* server.Listen(): from here on the router serves requests.
Listen ==
    /\ ~serving
    /\ serving' = TRUE
    /\ op' = Operation("Listen", NoRequest, Nil, FindHandler(rules, "", ""))
    /\ UNCHANGED <<rules, w, trace, fault, requests, lastReset, now, registered, window>>
    /\ UNCHANGED raceVars

\* One request through Router.ServeHTTP, on a fresh ResponseWriter.
Serve(req) ==
    /\ serving
    /\ op.name # "ServeHTTP"
    /\ \E order \in KeyOrders(PathRules(rules, req.path)) :
         LET x == ServeHTTP(rules, req, order,
                            Context(NewWriter, requests, lastReset, now))
         IN  /\ w' = x.w
             /\ trace' = x.trace
             /\ fault' = x.panic
             /\ requests' = x.requests
             /\ lastReset' = x.lastReset
    /\ op' = Operation("ServeHTTP", req, Nil, FindHandler(rules, req.path, req.method))
    /\ UNCHANGED <<rules, registered, serving, now>>
    /\ UNCHANGED raceVars

\* The server finishes the response and drops the request's ResponseWriter.
FinishRequest ==
    /\ op.name = "ServeHTTP"
    /\ op' = Operation("Listen", NoRequest, Nil, FindHandler(rules, "", ""))
    /\ w' = NewWriter
    /\ trace' = <<>>
    /\ fault' = FALSE
    /\ UNCHANGED <<rules, registered, serving, requests, lastReset, now, window>>
    /\ UNCHANGED raceVars

Next ==
    \/ \E method \in Methods, path \in Paths, handler \in Handlers :
         DoHandle(method, path, handler)
    \/ Listen
    \/ \E method \in ReqMethods, path \in Paths :
         Serve(Request(method, path, "c1", "")) /\ UNCHANGED window
    \/ FinishRequest

Spec == Init /\ [][Next]_vars

(***************************************************************************)
(* The middleware chain as a state machine: main wraps a handler with      *)
(* Server.AddMiddleware and registers the result; requests for that route  *)
(* then run through the chain.                                             *)
(***************************************************************************)
MiddlewareKinds ==
    {[kind |-> "Logging"], [kind |-> "RequireAuth"], [kind |-> "CORS"],
     [kind |-> "RecoverPanic"], [kind |-> "RateLimit", quota |-> 1]}

Chains == UNION {[1..n -> MiddlewareKinds] : n \in 0..MaxChain}

ChainMethods == {"GET", "OPTIONS"}

\* The handlers a chain wraps: one that answers, the nil handler, and one
\* that panics after it has answered.
ChainHandlers == {Terminal("h1"), Nil, Terminal("faulting")}

\* Values of the Authorization header; "" is the absent header.
AuthHeaders ==
    {"", "Bearer", "Bearer ", "Bearer demo-token", "Bearer valid-xyz",
     "Bearer valid-", "Bearer valid", "Bearer other", "Bearer demo-token2",
     "Basic demo-token", "bearer demo-token", "demo-token"}

HasLimiter(middlewares) ==
    \E i \in DOMAIN middlewares : middlewares[i].kind = "RateLimit"

\* server.Handle(method, path, server.AddMiddleware(handler, middlewares...)).
\* Making a RateLimit middleware starts its window at the current time.
Install(method, path, handler, middlewares) ==
    /\ ~serving
    /\ registered = {}
    /\ registered' = {<<method, path, middlewares>>}
    /\ rules' = Handle(rules, method, path, AddMiddleware(handler, middlewares))
    /\ op' = Operation("Handle", Request(method, path, "", ""),
                       AddMiddleware(handler, middlewares),
                       FindHandler(rules, path, method))
    /\ lastReset' = IF HasLimiter(middlewares) THEN now ELSE lastReset
    /\ requests' = EmptyMap
    /\ window' = NewWindow(now)
    /\ UNCHANGED <<serving, w, trace, fault, now>>
    /\ UNCHANGED raceVars

NextChain ==
    \/ \E method \in ChainMethods, handler \in ChainHandlers, middlewares \in Chains :
         Install(method, "/a", handler, middlewares)
    \/ Listen
    \/ \E r \in registered, authorization \in AuthHeaders :
         Serve(Request(r[1], "/a", "c1", authorization)) /\ UNCHANGED window
    \/ FinishRequest

SpecChain == Init /\ [][NextChain]_vars

(***************************************************************************)
(* The rate limiter as a state machine: one route wrapped in one           *)
(* RateLimit(q); time passes between the requests of two clients.          *)
(***************************************************************************)
Clients == {"1.2.3.4", "5.6.7.8"}

Delays == {30, 31}

Limiter(q) == [kind |-> "RateLimit", quota |-> q]

\* Time passes while no request is being served.
Tick(d) ==
    /\ op.name # "ServeHTTP"
    /\ now + d <= MaxNow
    /\ now' = now + d
    /\ UNCHANGED <<rules, serving, op, w, trace, fault, requests, lastReset,
                   registered, window>>
    /\ UNCHANGED raceVars

NextRate ==
    \/ \E q \in 0..MaxQuota : Install("GET", "/a", Terminal("h1"), <<Limiter(q)>>)
    \/ Listen
    \/ \E d \in Delays : Tick(d)
    \/ \E remoteAddr \in Clients :
         /\ (now - window.start > Minute \/ Count(window.seen, remoteAddr) < MaxBurst)
         /\ Serve(Request("GET", "/a", remoteAddr, ""))
         /\ window' = NextWindow(window, Request("GET", "/a", remoteAddr, ""), now,
                                 SelectSeq(trace', LAMBDA e : e.ev = "call") # <<>>)
    \/ FinishRequest

SpecRate == Init /\ [][NextRate]_vars

(***************************************************************************)
(* The rate limiter under concurrent requests.  net/http serves every      *)
(* request on its own goroutine and the closure of RateLimit takes no      *)
(* lock, so the reads and writes of requests and lastReset by different    *)
(* requests interleave statement by statement; requests[clientIP]++ is a   *)
(* read of the map followed by a write to the same map.  The outcomes of   *)
(* this data race are the interleavings below and the runtime's fatal      *)
(* error when it catches two goroutines in one map.                        *)
(***************************************************************************)
RequestsPerMinute == (CHOOSE r \in registered : TRUE)[3][1].quota

Running == serving /\ registered # {} /\ op.name # "throw"

RaceFrame == UNCHANGED <<rules, serving, op, w, trace, fault, now, registered>>

\* A request enters the closure on the first free goroutine.
Enter(t, remoteAddr) ==
    /\ Running
    /\ tasks[t].pc = "idle"
    /\ \A u \in 1..(t - 1) : tasks[u].pc # "idle"
    /\ sweeps.arrivals < MaxArrivals
    /\ tasks' = [tasks EXCEPT ![t] = [Idle EXCEPT !.pc = "since",
                                                  !.clientIP = remoteAddr]]
    /\ sweeps' = [sweeps EXCEPT !.arrivals = @ + 1]
    /\ UNCHANGED <<requests, lastReset, window, mapId>>
    /\ RaceFrame

\* if time.Since(lastReset) > time.Minute
CheckWindow(t) ==
    /\ Running
    /\ tasks[t].pc = "since"
    /\ tasks' = [tasks EXCEPT ![t].pc = IF now - lastReset > Minute
                                        THEN "make" ELSE "quota",
                              ![t].elapsedFrom = lastReset]
    /\ UNCHANGED <<requests, lastReset, window, mapId, sweeps>>
    /\ RaceFrame

\* requests = make(map[string]int)
MakeMap(t) ==
    /\ Running
    /\ tasks[t].pc = "make"
    /\ requests' = EmptyMap
    /\ mapId' = mapId + 1
    /\ window' = NewWindow(now)
    /\ sweeps' = [sweeps EXCEPT !.swept = @ \cup {tasks[t].elapsedFrom},
                                !.twice = @ \/ tasks[t].elapsedFrom \in sweeps.swept]
    /\ tasks' = [tasks EXCEPT ![t].pc = "restart"]
    /\ UNCHANGED lastReset
    /\ RaceFrame

\* lastReset = time.Now()
SetLastReset(t) ==
    /\ Running
    /\ tasks[t].pc = "restart"
    /\ lastReset' = now
    /\ tasks' = [tasks EXCEPT ![t].pc = "quota"]
    /\ UNCHANGED <<requests, window, mapId, sweeps>>
    /\ RaceFrame

\* if requests[clientIP] >= requestsPerMinute { ... 429 ...; return }
CheckQuota(t) ==
    /\ Running
    /\ tasks[t].pc = "quota"
    /\ tasks' = [tasks EXCEPT ![t] =
                    IF Count(requests, tasks[t].clientIP) >= RequestsPerMinute
                    THEN [@ EXCEPT !.pc = "return", !.status = StatusTooManyRequests]
                    ELSE [@ EXCEPT !.pc = "load"]]
    /\ UNCHANGED <<requests, lastReset, window, mapId, sweeps>>
    /\ RaceFrame

\* requests[clientIP]++, first half: the map and the count in it are read.
LoadCount(t) ==
    /\ Running
    /\ tasks[t].pc = "load"
    /\ tasks' = [tasks EXCEPT ![t].pc = "store",
                              ![t].map = mapId,
                              ![t].count = Count(requests, tasks[t].clientIP)]
    /\ UNCHANGED <<requests, lastReset, window, mapId, sweeps>>
    /\ RaceFrame

\* requests[clientIP]++, second half: the count plus one is written to the
\* map that was read, which is no longer the closure's map when another
\* request has reset the window in between; then next(w, r) is called.
StoreCount(t) ==
    /\ Running
    /\ tasks[t].pc = "store"
    /\ requests' = IF tasks[t].map = mapId
                   THEN MapSet(requests, tasks[t].clientIP, tasks[t].count + 1)
                   ELSE requests
    /\ sweeps' = [sweeps EXCEPT !.discarded = @ \/ tasks[t].map # mapId]
    /\ window' = [window EXCEPT !.passed =
                     MapSet(@, tasks[t].clientIP,
                            Count(window.passed, tasks[t].clientIP) + 1)]
    /\ tasks' = [tasks EXCEPT ![t].pc = "return", ![t].status = StatusOK]
    /\ UNCHANGED <<lastReset, mapId>>
    /\ RaceFrame

\* The closure returns and the goroutine ends.
Return(t) ==
    /\ Running
    /\ tasks[t].pc = "return"
    /\ tasks' = [tasks EXCEPT ![t] = Idle]
    /\ UNCHANGED <<requests, lastReset, window, mapId, sweeps>>
    /\ RaceFrame

\* The runtime finds a goroutine writing the map while another goroutine
\* reads or writes it ("fatal error: concurrent map writes"): the process
\* dies.
Throw ==
    /\ Running
    /\ \E t, u \in 1..MaxTasks :
         /\ t # u
         /\ tasks[t].pc = "store"
         /\ tasks[t].map = mapId
         /\ \/ tasks[u].pc \in {"quota", "load"}
            \/ tasks[u].pc = "store" /\ tasks[u].map = mapId
    /\ op' = Operation("throw", NoRequest, Nil, FindHandler(rules, "", ""))
    /\ UNCHANGED <<rules, serving, w, trace, fault, now, registered>>
    /\ UNCHANGED <<requests, lastReset, window, tasks, mapId, sweeps>>

NextRace ==
    \/ \E q \in 0..MaxQuota : Install("GET", "/a", Terminal("h1"), <<Limiter(q)>>)
    \/ Listen
    \/ Tick(Minute + 1)
    \/ \E t \in 1..MaxTasks, remoteAddr \in Clients : Enter(t, remoteAddr)
    \/ \E t \in 1..MaxTasks : CheckWindow(t)
    \/ \E t \in 1..MaxTasks : MakeMap(t)
    \/ \E t \in 1..MaxTasks : SetLastReset(t)
    \/ \E t \in 1..MaxTasks : CheckQuota(t)
    \/ \E t \in 1..MaxTasks : LoadCount(t)
    \/ \E t \in 1..MaxTasks : StoreCount(t)
    \/ \E t \in 1..MaxTasks : Return(t)
    \/ Throw

SpecRace == Init /\ [][NextRace]_vars

(***************************************************************************)
(* The server main builds: its seven server.Handle calls in their order,   *)
(* then server.Listen, then requests.                                      *)
(***************************************************************************)
Route(method, path, handler, middlewares) ==
    [method |-> method, path |-> path, handler |-> handler,
     middlewares |-> middlewares]

PublicChain ==
    <<[kind |-> "RecoverPanic"], [kind |-> "Logging"], [kind |-> "CORS"]>>

ProtectedChain ==
    <<[kind |-> "RecoverPanic"], [kind |-> "Logging"], [kind |-> "CORS"],
      [kind |-> "RequireAuth"]>>

\* Mutant: main also registers the preflight method for /api.
MainRoutes_withPreflight ==
    <<Route("GET", "/health", "HealthCheck", <<>>),
      Route("GET", "/api", "GetAPIInfo", PublicChain),
      Route("OPTIONS", "/api", "GetAPIInfo", PublicChain),
      Route("GET", "/api/users", "ListUsers", PublicChain),
      Route("POST", "/api/users", "CreateUser", ProtectedChain),
      Route("GET", "/api/user", "GetUser", PublicChain),
      Route("PUT", "/api/user", "UpdateUser", ProtectedChain),
      Route("DELETE", "/api/user", "DeleteUser", ProtectedChain)>>

MainRoutes ==
    <<Route("GET", "/health", "HealthCheck", <<>>),
      Route("GET", "/api", "GetAPIInfo", PublicChain),
      Route("GET", "/api/users", "ListUsers", PublicChain),
      Route("POST", "/api/users", "CreateUser", ProtectedChain),
      Route("GET", "/api/user", "GetUser", PublicChain),
      Route("PUT", "/api/user", "UpdateUser", ProtectedChain),
      Route("DELETE", "/api/user", "DeleteUser", ProtectedChain)>>

MainMethods == {"GET", "POST", "PUT", "DELETE", "OPTIONS"}

MainPaths == {"/health", "/health/", "/api", "/api/", "/api/users", "/api/users/",
              "/api/user", "/nope"}

MainAuthHeaders == {"", "Bearer demo-token", "Bearer other"}

\* The next server.Handle call of main.
RegisterRoute ==
    /\ ~serving
    /\ Cardinality(registered) < Len(MainRoutes)
    /\ LET r == MainRoutes[Cardinality(registered) + 1]
           handler == AddMiddleware(Terminal(r.handler), r.middlewares)
       IN  /\ registered' = registered \cup {<<r.method, r.path, r.middlewares>>}
           /\ rules' = Handle(rules, r.method, r.path, handler)
           /\ op' = Operation("Handle", Request(r.method, r.path, "", ""), handler,
                              FindHandler(rules, r.path, r.method))
    /\ UNCHANGED <<serving, w, trace, fault, requests, lastReset, now, window>>
    /\ UNCHANGED raceVars

NextMain ==
    \/ RegisterRoute
    \/ Cardinality(registered) = Len(MainRoutes) /\ Listen
    \/ \E method \in MainMethods, path \in MainPaths, authorization \in MainAuthHeaders :
         Serve(Request(method, path, "c1", authorization)) /\ UNCHANGED window
    \/ FinishRequest

SpecMain == Init /\ [][NextMain]_vars

(***************************************************************************)
(* Properties of the dispatcher.                                           *)
(***************************************************************************)
IsCall(e) == e.ev = "call"

IsRouterEvent(e) == e.who = "Router"

\* The first position at which sep occurs in s, 0 if it does not occur.
IndexOf(s, sep) ==
    LET at == {i \in 1..(Len(s) - Len(sep) + 1) : SubSeq(s, i, i + Len(sep) - 1) = sep}
    IN  IF at = {} THEN 0 ELSE CHOOSE i \in at : \A j \in at : i <= j

\* The fields of s between the occurrences of sep.
RECURSIVE Split(_, _)
Split(s, sep) ==
    LET i == IndexOf(s, sep)
    IN  IF i = 0 THEN <<s>>
        ELSE <<SubSeq(s, 1, i - 1)>> \o Split(SubSeq(s, i + Len(sep), Len(s)), sep)

\* The methods Handle was called with for a path that normalizes as path does.
RegisteredMethods(path) ==
    {r[1] : r \in {q \in registered : normalizePath(q[2]) = normalizePath(path)}}

Served == op.name = "ServeHTTP"

JSONHeader == MapSet(EmptyMap, "Content-Type", "application/json")

\* C1: a request whose normalized path was never registered is answered
\* with 404 and the requested path in the error detail, whatever its
\* method, and no handler runs.
C1_UnregisteredPathIs404 ==
    (Served /\ RegisteredMethods(op.path) = {}) =>
        /\ w.status = 404
        /\ w.sent = JSONHeader
        /\ w.body = <<APIResponse(FALSE, "", "endpoint not found: " \o op.path)>>
        /\ SelectSeq(trace, IsCall) = <<>>
        /\ ~fault

C1_Witness ==
    /\ Served
    /\ RegisteredMethods(op.path) = {}
    /\ \E r \in registered : r[1] = op.method
    /\ w.status = 404

\* C2: a request for a registered path with a method not registered for it
\* is answered with 405, no handler runs, and the Allow header lists each
\* method registered for that path once and nothing else.
C2_UnregisteredMethodIs405 ==
    (Served /\ RegisteredMethods(op.path) # {} /\ op.method \notin RegisteredMethods(op.path)) =>
        /\ w.status = 405
        /\ SelectSeq(trace, IsCall) = <<>>
        /\ ~fault
        /\ "Allow" \in DOMAIN w.sent
        /\ LET allowed == Split(w.sent["Allow"], ", ")
           IN  /\ Len(allowed) = Cardinality(RegisteredMethods(op.path))
               /\ {allowed[i] : i \in DOMAIN allowed} = RegisteredMethods(op.path)

C2_Witness ==
    /\ Served
    /\ Cardinality(RegisteredMethods(op.path)) = 2
    /\ op.method \notin RegisteredMethods(op.path)
    /\ op.path # op.key
    /\ w.status = 405

\* C3: a request for a registered (method, path) pair runs the registered
\* handler once, and the response is the handler's alone.
C3_FullDelegation ==
    (Served /\ op.method \in RegisteredMethods(op.path)) =>
        LET h == FindHandler(rules, op.path, op.method).handler
        IN  /\ h \in Handlers
            /\ SelectSeq(trace, IsCall) = <<Event(0, h.term, "call")>>
            /\ SelectSeq(trace, IsRouterEvent) = <<>>
            /\ w = Success(NewWriter, h.term)
            /\ ~fault

C3_Witness ==
    /\ Served
    /\ op.method \in RegisteredMethods(op.path)
    /\ Cardinality(registered) = 2
    /\ w.status = 200

Found(handler) == [handler |-> handler, methodExists |-> TRUE, pathExists |-> TRUE]

\* C4 (state part): every registered pair is found, with a handler.
C4_RegisteredIsFound ==
    \A r \in registered :
        LET f == FindHandler(rules, r[2], r[1])
        IN  f.pathExists /\ f.methodExists /\ f.handler \in Handlers

\* C4 (step part): after Handle(method, path, handler) the pair resolves to
\* that handler, and every other (normalized path, method) pair resolves to
\* the handler it resolved to before.
C4_HandleStep ==
    op'.name = "Handle" =>
        /\ FindHandler(rules', op'.path, op'.method) = Found(op'.handler)
        /\ \A p \in Paths, m \in ReqMethods :
             <<normalizePath(p), m>> # <<normalizePath(op'.path), op'.method>> =>
                /\ FindHandler(rules', p, m).handler = FindHandler(rules, p, m).handler
                /\ FindHandler(rules', p, m).methodExists
                     = FindHandler(rules, p, m).methodExists

\* C4: FindHandler returns for a registered pair the handler registered for
\* it last, and a registration leaves every other pair's handler alone.
C4_LastWriteWins == [] C4_RegisteredIsFound /\ [][C4_HandleStep]_vars

\* A registration that replaced another handler, made under the other
\* spelling of the path, while a second pair is in the table.
C4_Witness ==
    /\ op.name = "Handle"
    /\ op.found.methodExists
    /\ op.found.handler # op.handler
    /\ op.path # op.key
    /\ FindHandler(rules, op.key, op.method) = Found(op.handler)
    /\ \E m \in Methods : m # op.method /\ FindHandler(rules, op.key, m).methodExists

\* C5: FindHandler never reports a method found under a path not found, and
\* a path not found comes with the nil handler.
C5_NoMethodWithoutPath ==
    /\ \A p \in Paths, m \in ReqMethods :
         LET f == FindHandler(rules, p, m)
         IN  ~f.pathExists => (~f.methodExists /\ f.handler = Nil)
    /\ Served => (~op.found.pathExists => (~op.found.methodExists /\ op.found.handler = Nil))

C5_Witness ==
    /\ Served
    /\ ~op.found.pathExists
    /\ ~op.found.methodExists
    /\ op.found.handler = Nil
    /\ \E r \in registered : r[1] = op.method /\ normalizePath(r[2]) = normalizePath(op.key)

\* C6: normalizing the key that Handle or FindHandler computed from its path
\* argument gives that key again (normalizePath is idempotent).
C6_NormalizeIdempotent ==
    op.name \in {"Handle", "ServeHTTP"} => normalizePath(op.key) = op.key

\* The rule of normalizePath, spelled out on the characters of the path.
StripOne(path) ==
    IF Len(path) > 1 /\ SubSeq(path, Len(path), Len(path)) = "/"
    THEN SubSeq(path, 1, Len(path) - 1)
    ELSE path

NoTrailingSeparator == {p \in Paths : ~HasSuffix(p, "/") /\ (p \o "/") \in Paths}

C7_RuleAndSameRoute(P) ==
    /\ op.name \in {"Handle", "ServeHTTP"} => op.key = StripOne(op.path)
    /\ \A p \in P, m \in ReqMethods :
         FindHandler(rules, p, m) = FindHandler(rules, p \o "/", m)
    /\ \A p \in P :
         (op.name = "Handle" /\ op.path \in {p, p \o "/"}) =>
             /\ FindHandler(rules, p, op.method) = Found(op.handler)
             /\ FindHandler(rules, p \o "/", op.method) = Found(op.handler)

\* C7 as stated: normalizePath strips one trailing separator of a path
\* longer than one character and changes nothing else, and for every p
\* without trailing separator a route registered as p or p/ is resolved
\* alike by requests for p and p/.
C7_AnyPath == C7_RuleAndSameRoute(NoTrailingSeparator)

\* C7 amended: the same, for every non-empty p without trailing separator.
C7_NonEmptyPath == C7_RuleAndSameRoute(NoTrailingSeparator \ {""})

\* A route registered as p/ only, reached by a request for p.
C7_Witness ==
    /\ Served
    /\ op.path # ""
    /\ ~HasSuffix(op.path, "/")
    /\ <<op.method, op.path \o "/", <<>>>> \in registered
    /\ <<op.method, op.path, <<>>>> \notin registered
    /\ op.found.methodExists
    /\ SelectSeq(trace, IsCall) = <<Event(0, op.found.handler.term, "call")>>

(***************************************************************************)
(* Properties of the middleware chain.                                     *)
(***************************************************************************)
IsStep(e) == e.ev \in {"pre", "call", "post"}

IsShort(e) == e.ev = "short"

\* The middlewares listed in the AddMiddleware call of the route served.
Listed == (CHOOSE r \in registered : TRUE)[3]

\* The request reached the chain of the registered route.
ChainServed == Served /\ registered # {} /\ op.found.methodExists

\* Mn-pre, ..., M1-pre, H, M1-post, ..., Mn-post for the listed M1, ..., Mn.
NestedOrder(middlewares, term) ==
    LET n == Len(middlewares)
    IN  [k \in 1..(2 * n + 1) |->
            IF k <= n THEN Event(n - k + 1, middlewares[n - k + 1].kind, "pre")
            ELSE IF k = n + 1 THEN Event(0, term, "call")
            ELSE Event(k - n - 1, middlewares[k - n - 1].kind, "post")]

\* C8: when no layer short-circuits, a request runs the layers of
\* AddMiddleware(H, M1, ..., Mn) in the order Mn-pre, ..., M1-pre, H,
\* M1-post, ..., Mn-post, each once: the last-listed middleware is outermost.
C8_NestedOrder ==
    (ChainServed /\ SelectSeq(trace, IsShort) = <<>> /\ op.found.handler.term = "h1") =>
        SelectSeq(trace, IsStep) = NestedOrder(Listed, "h1")

C8_Witness ==
    /\ ChainServed
    /\ Len(Listed) = 3
    /\ Listed[1].kind = "RecoverPanic"
    /\ Listed[2].kind = "Logging"
    /\ Listed[3].kind = "RequireAuth"
    /\ SelectSeq(trace, IsShort) = <<>>
    /\ Len(SelectSeq(trace, IsStep)) = 7
    /\ op.found.handler.term = "h1"
    /\ trace[1] = Event(3, "RequireAuth", "pre")

\* The acceptance rule of RequireAuth, on the characters of the header.
Accepted(authHeader) ==
    /\ Len(authHeader) > 7
    /\ SubSeq(authHeader, 1, 7) = "Bearer "
    /\ LET token == SubSeq(authHeader, 8, Len(authHeader))
       IN  \/ token = "demo-token"
           \/ (Len(token) >= 6 /\ SubSeq(token, 1, 6) = "valid-")

\* The reason RequireAuth gives for a rejected header.
Reason(authHeader) ==
    IF authHeader = "" THEN "Missing Authorization header"
    ELSE IF Len(authHeader) < 7 \/ SubSeq(authHeader, 1, 7) # "Bearer "
    THEN "Invalid authorization format. Use: Bearer <token>"
    ELSE IF Len(authHeader) = 7 THEN "Empty token"
    ELSE "Invalid token"

\* How often the layer at depth i called next: the entries of the layer (or
\* terminal handler) right inside it.
NextCalls(i) ==
    Len(SelectSeq(trace, LAMBDA e : e.layer = i - 1 /\ e.ev \in {"pre", "call", "panic"}))

Entered(i, kind) ==
    \E k \in DOMAIN trace : trace[k] = Event(i, kind, "pre")

Limited == registered # {} /\ Len(Listed) = 1 /\ Listed[1].kind = "RateLimit"

Forwarded == SelectSeq(trace, IsCall) = <<Event(0, "h1", "call")>>

\* C10: of the requests a client sends in one window the first q reach next
\* and every later one is answered 429 with Retry-After "60" and does not
\* reach next; a request after the window has expired starts a new window
\* and is forwarded again (for q >= 1); so between two resets at most q
\* requests per client reach next.
C10_QuotaPerWindow ==
    /\ Limited => \A c \in DOMAIN window.passed : window.passed[c] <= Listed[1].quota
    /\ (Limited /\ ChainServed) =>
         /\ IF window.seen[op.remoteAddr] <= Listed[1].quota
            THEN /\ Forwarded
                 /\ SelectSeq(trace, IsShort) = <<>>
                 /\ w.status = 200
            ELSE /\ SelectSeq(trace, IsCall) = <<>>
                 /\ w.status = 429
                 /\ "Retry-After" \in DOMAIN w.sent
                 /\ w.sent["Retry-After"] = "60"
         /\ (window.expired /\ Listed[1].quota >= 1) => Forwarded

\* A client refused in one window is forwarded by its first request after
\* the window expired.
C10_Witness ==
    /\ Limited
    /\ ChainServed
    /\ Listed[1].quota = 2
    /\ window.expired
    /\ op.remoteAddr \in window.refused
    /\ Forwarded

(***************************************************************************)
(* Properties of panic recovery.                                           *)
(***************************************************************************)
\* A panic was raised while the request was served.
Faulted == \E k \in DOMAIN trace : trace[k].ev \in {"panic", "raise"}

\* The last-listed middleware, the outermost layer of the chain, is kind.
Outermost(kind) == Len(Listed) >= 1 /\ Listed[Len(Listed)].kind = kind

GenericError == APIResponse(FALSE, "", "An unexpected error occurred")

\* C11: when RecoverPanic is the outermost layer and the handler or an
\* inner layer panics at any point of its execution, the panic does not
\* leave the chain and the client receives the generic 500 response: status
\* 500 and the generic error envelope, not any other status or body.
C11_RecoveredIs500 ==
    (ChainServed /\ Outermost("RecoverPanic") /\ Faulted) =>
        /\ ~fault
        /\ w.status = StatusInternalServerError
        /\ w.body = <<GenericError>>

(***************************************************************************)
(* Properties of CORS.                                                     *)
(***************************************************************************)
CORSHeaders ==
    [k \in {"Access-Control-Allow-Origin", "Access-Control-Allow-Methods",
            "Access-Control-Allow-Headers"} |->
        IF k = "Access-Control-Allow-Origin" THEN "*"
        ELSE IF k = "Access-Control-Allow-Methods"
        THEN "GET, POST, PUT, DELETE, OPTIONS"
        ELSE "Content-Type, Authorization"]

HasCORSHeaders(header) ==
    \A k \in DOMAIN CORSHeaders : k \in DOMAIN header /\ header[k] = CORSHeaders[k]

Events == {trace[k] : k \in DOMAIN trace}

\* C12: a CORS layer that a request reaches sets the three
\* Access-Control-Allow-* headers before anything is sent (they are in the
\* header map, and in the headers of whatever response is sent); for
\* OPTIONS it answers 200 itself and does not call next; for every other
\* method it calls next exactly once and does not short-circuit.
C12_CORS ==
    ChainServed =>
        \A i \in DOMAIN Listed :
            (Listed[i].kind = "CORS" /\ Entered(i, "CORS")) =>
                /\ HasCORSHeaders(w.header)
                /\ w.status # 0 => HasCORSHeaders(w.sent)
                /\ IF op.method = "OPTIONS"
                   THEN /\ NextCalls(i) = 0
                        /\ Event(i, "CORS", "short") \in Events
                        /\ w.status = StatusOK
                        /\ w.body = <<>>
                   ELSE /\ NextCalls(i) = 1
                        /\ Event(i, "CORS", "short") \notin Events

\* A preflight request answered by a CORS layer inside a Logging layer.
C12_Witness ==
    /\ ChainServed
    /\ Len(Listed) = 2
    /\ Listed[1].kind = "CORS"
    /\ Listed[2].kind = "Logging"
    /\ op.method = "OPTIONS"
    /\ NextCalls(1) = 0
    /\ w.status = StatusOK
    /\ HasCORSHeaders(w.sent)

(***************************************************************************)
(* Properties of the rate limiter under concurrent requests.               *)
(***************************************************************************)
\* C13: with concurrent requests through one RateLimit(q) the check and the
\* increment of a client's count are one atomic step, so no increment is
\* lost (the count in the map is the number of the client's requests that
\* went on to next since the last reset) and no client has more than q
\* requests forwarded in one window.
C13_AtomicCheckAndIncrement ==
    (registered # {} /\ op.name # "throw") =>
        \A c \in Clients :
            /\ Count(window.passed, c) <= RequestsPerMinute
            /\ Count(requests, c) = Count(window.passed, c)

\* C20: with concurrent requests racing with a window reset, no request
\* works on a stale window: no forwarded request's increment is written to
\* a map that a reset has discarded, and the reset sweep runs at most once
\* for each expiry of the window.
C20_NoStaleWindow ==
    /\ ~sweeps.discarded
    /\ ~sweeps.twice

(***************************************************************************)
(* Properties of short-circuiting.                                         *)
(***************************************************************************)
\* The layers that short-circuited the request.
ShortAt == {trace[k].layer : k \in {j \in DOMAIN trace : trace[j].ev = "short"}}

\* C14: once a layer of a chain built by AddMiddleware short-circuits (a
\* RequireAuth rejection, a CORS preflight answer, a RateLimit rejection),
\* no layer inside it and not the terminal handler runs for that request:
\* nothing is recorded at a depth below the layer that short-circuited.
C14_ShortCircuitStops ==
    ChainServed =>
        \A i \in ShortAt :
            /\ Listed[i].kind \in {"RequireAuth", "CORS", "RateLimit"}
            /\ \A k \in DOMAIN trace : trace[k].layer >= i
            /\ NextCalls(i) = 0

\* A RateLimit rejection between a Logging layer outside it and a CORS
\* layer inside it.
C14_Witness ==
    /\ ChainServed
    /\ Len(Listed) = 3
    /\ Listed[1].kind = "CORS"
    /\ Listed[2].kind = "RateLimit"
    /\ Listed[3].kind = "Logging"
    /\ ShortAt = {2}
    /\ Event(3, "Logging", "pre") \in Events
    /\ w.status = StatusTooManyRequests

(***************************************************************************)
(* Properties of the order of the layers.                                  *)
(***************************************************************************)
Pre == SelectSeq(trace, LAMBDA e : e.ev = "pre")

Post == SelectSeq(trace, LAMBDA e : e.ev = "post")

\* No layer short-circuited and the handler ran to its end.
RanThrough ==
    ChainServed /\ SelectSeq(trace, IsShort) = <<>> /\ op.found.handler.term = "h1"

\* C15 as stated: the before-logic of the middlewares passed to
\* AddMiddleware runs in the order in which they are listed (first-listed
\* first) and their after-logic in the reverse of that order.
C15_FirstListedFirst ==
    /\ ChainServed => \A k \in DOMAIN Pre : Pre[k].who = Listed[k].kind
    /\ RanThrough =>
         /\ Len(Pre) = Len(Listed)
         /\ Len(Post) = Len(Listed)
         /\ \A k \in DOMAIN Post : Post[k].who = Listed[Len(Listed) - k + 1].kind

\* C15, amended: the before-logic runs in the reverse of the listed order
\* (the last-listed middleware is outermost and runs first) and the
\* after-logic in the listed order (first-listed first); a request that is
\* short-circuited or panics runs a prefix of that before-order.
C15_LastListedFirst ==
    /\ ChainServed =>
         /\ \A k \in DOMAIN Pre :
               /\ Pre[k].layer = Len(Listed) - k + 1
               /\ Pre[k].who = Listed[Len(Listed) - k + 1].kind
         /\ \A j, k \in DOMAIN Post : j < k => Post[j].layer < Post[k].layer
         /\ \A k \in DOMAIN Post : Post[k].who = Listed[Post[k].layer].kind
    /\ RanThrough =>
         /\ Len(Pre) = Len(Listed)
         /\ Len(Post) = Len(Listed)
         /\ \A k \in DOMAIN Post : Post[k].layer = k

\* The chain main puts around its public routes: CORS, listed last, runs
\* first and finishes last.
C15_Witness ==
    /\ RanThrough
    /\ Len(Listed) = 3
    /\ Listed[1].kind = "RecoverPanic"
    /\ Listed[2].kind = "Logging"
    /\ Listed[3].kind = "CORS"
    /\ Pre[1] = Event(3, "CORS", "pre")
    /\ Pre[3] = Event(1, "RecoverPanic", "pre")
    /\ Post[1] = Event(1, "RecoverPanic", "post")
    /\ Post[3] = Event(3, "CORS", "post")

(***************************************************************************)
(* Properties of Logging.                                                  *)
(***************************************************************************)
\* The log entries the Logging layer at depth i wrote, by their first word.
LogEntries(i, word) ==
    SelectSeq(trace, LAMBDA e : /\ e.ev = "log"
                                /\ e.layer = i
                                /\ e.who = "Logging"
                                /\ HasPrefix(e.text, word \o " "))

\* C16: a Logging layer never short-circuits: it writes its start entry,
\* calls next exactly once, and writes its completion entry for every
\* request, also when the chain inside it panics and a RecoverPanic layer
\* outside Logging recovers the panic.
C16_LoggingAlwaysCompletes ==
    (ChainServed /\ ~fault) =>
        \A i \in DOMAIN Listed :
            (Listed[i].kind = "Logging" /\ Entered(i, "Logging")) =>
                /\ Len(LogEntries(i, "Started")) = 1
                /\ NextCalls(i) = 1
                /\ Event(i, "Logging", "short") \notin Events
                /\ Len(LogEntries(i, "Completed")) = 1

\* Where in the trace the event e is first recorded, 0 if it is not.
At(e) ==
    LET at == {k \in DOMAIN trace : trace[k] = e}
    IN  IF at = {} THEN 0 ELSE CHOOSE k \in at : \A j \in at : k <= j

BodyEntries == {w.body[k] : k \in DOMAIN w.body}

\* C17: when a layer short-circuits, the Logging and RecoverPanic layers
\* outside it still run what they do after next returns: each such Logging
\* layer writes its completion entry exactly once, after the short-circuit,
\* and each such RecoverPanic layer returns without recovering anything and
\* without writing the 500 answer.
C17_OuterLayersUnwind ==
    ChainServed =>
        \A i \in ShortAt : \A j \in DOMAIN Listed :
            /\ (j > i /\ Listed[j].kind = "Logging") =>
                  /\ Len(LogEntries(j, "Completed")) = 1
                  /\ At(LogEntries(j, "Completed")[1]) > At(Event(i, Listed[i].kind, "short"))
                  /\ Event(j, "Logging", "post") \in Events
            /\ (j > i /\ Listed[j].kind = "RecoverPanic") =>
                  /\ Event(j, "RecoverPanic", "post") \in Events
                  /\ LogEvent(j, "RecoverPanic", "PANIC recovered") \notin Events
                  /\ w.status # StatusInternalServerError
                  /\ GenericError \notin BodyEntries

\* A request without credentials, rejected by RequireAuth inside a Logging
\* layer inside a RecoverPanic layer.
C17_Witness ==
    /\ ChainServed
    /\ Len(Listed) = 3
    /\ Listed[1].kind = "RequireAuth"
    /\ Listed[2].kind = "Logging"
    /\ Listed[3].kind = "RecoverPanic"
    /\ ShortAt = {1}
    /\ Len(LogEntries(2, "Completed")) = 1
    /\ trace[Len(trace)] = Event(3, "RecoverPanic", "post")
    /\ w.status = StatusUnauthorized

(***************************************************************************)
(* Properties of the chains main installs.                                 *)
(***************************************************************************)
\* The handlers in the route table that are wrapped in middleware.
InstalledChains ==
    {h \in UNION {{rules[p][m] : m \in DOMAIN rules[p]} : p \in DOMAIN rules} :
        h.layers # <<>>}

\* C18: in every middleware chain main installs, RecoverPanic is the
\* outermost layer, so the other layers of the chain and the handler all
\* run inside its guarded scope.
C18_RecoverPanicOutermost ==
    \A h \in InstalledChains : h.layers[Len(h.layers)].kind = "RecoverPanic"

(***************************************************************************)
(* Properties of the limiter's window.                                     *)
(***************************************************************************)
\* The step serves a request through the limiter.
LimitedRequest == Limited /\ op.name # "ServeHTTP" /\ op'.name = "ServeHTTP"

\* One step of the limiter's state: it changes only when a request is
\* served (or the limiter is made); a request later than one minute after
\* lastReset starts from an empty map and sets lastReset to the current
\* time, any other request is judged against the counts as they were.
C19_Step ==
    LET c == op'.remoteAddr
        q == Listed[1].quota
        goesOn == SelectSeq(trace', IsCall) # <<>>
    IN  /\ (requests' # requests \/ lastReset' # lastReset) =>
              (LimitedRequest \/ op'.name = "Handle")
        /\ LimitedRequest =>
              IF now - lastReset > Minute
              THEN /\ lastReset' = now
                   /\ goesOn <=> q >= 1
                   /\ requests' = IF q >= 1 THEN MapSet(EmptyMap, c, 1) ELSE EmptyMap
              ELSE /\ lastReset' = lastReset
                   /\ goesOn <=> Count(requests, c) < q
                   /\ requests' = IF goesOn
                                  THEN MapSet(requests, c, Count(requests, c) + 1)
                                  ELSE requests

\* C19: RateLimit clears the counts and restarts its window only while it
\* handles a request, and only when more than one minute has elapsed since
\* the last reset; without traffic its state does not change, and a request
\* that arrives one minute or less after the last reset is judged against
\* the old counts.
C19_ResetOnlyOnLateRequest == [][C19_Step]_vars

\* A client at its quota is refused exactly one minute after the reset.
C19_Witness ==
    /\ Limited
    /\ ChainServed
    /\ now - lastReset = Minute
    /\ Count(requests, op.remoteAddr) = Listed[1].quota
    /\ Listed[1].quota >= 1
    /\ w.status = StatusTooManyRequests

(***************************************************************************)
(* Properties of the route table in the server main builds.                *)
(***************************************************************************)
\* Every (path, method) pair of the table rs is a pair of the table rt.
KeepsRoutes(rs, rt) ==
    \A p \in DOMAIN rs :
        /\ p \in DOMAIN rt
        /\ \A m \in DOMAIN rs[p] : m \in DOMAIN rt[p]

\* Every route of main is in the table.
AllRegistered ==
    \A k \in DOMAIN MainRoutes :
        FindHandler(rules, MainRoutes[k].path, MainRoutes[k].method).methodExists

\* One step of the server: no route is ever deleted, main has made all its
\* Handle calls when Listen starts the server, and from then on no step
\* changes the table, whatever path and method are requested.
C21_Step ==
    /\ KeepsRoutes(rules, rules')
    /\ (~serving /\ serving') => (AllRegistered /\ rules' = rules)
    /\ serving => (serving' /\ rules' = rules)
    /\ op'.name = "ServeHTTP" => rules' = rules

\* C21: the route table is not modified in the serving phase: all the
\* Server.Handle calls of main come before Listen, nothing is ever deleted,
\* and ServeHTTP, FindHandler and getAllowedMethods leave rules as it was
\* for every request, also for a path that is not registered.
C21_TableFrozenWhileServing == [][C21_Step]_vars

\* A request for a path that is not registered has been answered and the
\* table still holds the seven routes.
C21_Witness ==
    /\ Served
    /\ serving
    /\ ~op.found.pathExists
    /\ w.status = StatusNotFound
    /\ AllRegistered
    /\ Cardinality(DOMAIN rules) = 4

\* C22: after any sequence of Server.Handle calls, with whatever paths,
\* every key of the route table is a normalized path: the root path "/" or
\* a path that does not end with the separator.
C22_KeysNormalized ==
    \A p \in DOMAIN rules :
        p = "/" \/ Len(p) = 0 \/ SubSeq(p, Len(p), Len(p)) # "/"

(***************************************************************************)
(* Properties of the limiter's counts.                                     *)
(***************************************************************************)
\* Every stored count is between 0 and the quota.
C23_CountsWithinQuota ==
    Limited => \A c \in DOMAIN requests :
                  requests[c] >= 0 /\ requests[c] <= Listed[1].quota

\* One request through the limiter: base is the map the request is judged
\* against (empty when the request opens a new window).
C23_Step ==
    LET c == op'.remoteAddr
        q == Listed[1].quota
        sameWindow == now - lastReset <= Minute
        base == IF sameWindow THEN requests ELSE EmptyMap
        goesOn == SelectSeq(trace', IsCall) # <<>>
    IN  LimitedRequest =>
            /\ w'.status = StatusTooManyRequests <=> ~goesOn
            /\ \A d \in Clients \ {c} : Count(requests', d) = Count(base, d)
            /\ Count(requests', c) = IF goesOn THEN Count(base, c) + 1 ELSE Count(base, c)
            /\ sameWindow =>
                  \A d \in Clients \ {c} :
                      (Count(requests', d) < q) <=> (Count(requests, d) < q)

\* C23: a request RateLimit rejects increments no count, and a request it
\* forwards increments the count of the requesting client by one and no
\* other count; so, with requests served one at a time and a quota q >= 0,
\* every stored count stays between 0 and q, and within one window the
\* requests of one client do not change whether another client is admitted.
C23_CountsFrame == [] C23_CountsWithinQuota /\ [][C23_Step]_vars

\* One client is refused at its quota while the other client's count is
\* below the quota.
C23_Witness ==
    /\ Limited
    /\ ChainServed
    /\ w.status = StatusTooManyRequests
    /\ Count(requests, op.remoteAddr) = Listed[1].quota
    /\ \E d \in Clients \ {op.remoteAddr} :
          Count(requests, d) >= 1 /\ Count(requests, d) < Listed[1].quota

(***************************************************************************)
(* Properties of the requests main's server answers.                       *)
(***************************************************************************)
\* The methods main registers for the path of the request.
MainMethodsOf(path) ==
    {MainRoutes[k].method :
        k \in {j \in DOMAIN MainRoutes :
                  normalizePath(MainRoutes[j].path) = normalizePath(path)}}

\* C24: main registers GET, POST, PUT and DELETE routes and no OPTIONS
\* route, so an OPTIONS request for a registered path is answered 405 by
\* the router (with the registered methods in Allow) and reaches no
\* middleware: no request makes CORS answer a preflight.
C24_PreflightUnreachable ==
    /\ \A p \in DOMAIN rules : DOMAIN rules[p] \subseteq {"GET", "POST", "PUT", "DELETE"}
    /\ \A k \in DOMAIN trace : ~(trace[k].who = "CORS" /\ trace[k].ev = "short")
    /\ (Served /\ op.method = "OPTIONS" /\ op.found.pathExists) =>
          /\ w.status = StatusMethodNotAllowed
          /\ trace = <<Event(0, "Router", "respond")>>
          /\ {Split(w.sent["Allow"], ", ")[k] :
                 k \in DOMAIN Split(w.sent["Allow"], ", ")} = MainMethodsOf(op.path)
          /\ \A k \in DOMAIN CORSHeaders : k \notin DOMAIN w.sent

\* An OPTIONS request for /api/users, which has a GET and a POST route.
C24_Witness ==
    /\ Served
    /\ op.method = "OPTIONS"
    /\ op.path = "/api/users"
    /\ w.status = StatusMethodNotAllowed
    /\ w.sent["Allow"] \in {"GET, POST", "POST, GET"}

\* The routes main wraps in ProtectedChain.
ProtectedRoutes ==
    {k \in DOMAIN MainRoutes : MainRoutes[k].middlewares = ProtectedChain}

\* The request is for one of the protected routes.
ProtectedRequest ==
    /\ Served
    /\ \E k \in ProtectedRoutes :
          /\ MainRoutes[k].method = op.method
          /\ normalizePath(MainRoutes[k].path) = op.key

\* C25: in the three protected routes main installs, RequireAuth is the
\* outermost layer: a request that authentication rejects is answered 401
\* before CORS, Logging, RecoverPanic or the handler run, so the answer has
\* none of the three CORS headers and the log has no start or completion
\* entry for it.
C25_AuthOutermost ==
    /\ {<<MainRoutes[k].method, MainRoutes[k].path>> : k \in ProtectedRoutes} =
           {<<"POST", "/api/users">>, <<"PUT", "/api/user">>, <<"DELETE", "/api/user">>}
    /\ \A h \in InstalledChains :
          (\E i \in DOMAIN h.layers : h.layers[i].kind = "RequireAuth") =>
              h.layers[Len(h.layers)].kind = "RequireAuth"
    /\ (ProtectedRequest /\ ~Accepted(op.authorization)) =>
          /\ w.status = StatusUnauthorized
          /\ trace = <<Event(4, "RequireAuth", "pre"), Event(4, "RequireAuth", "short")>>
          /\ \A k \in DOMAIN CORSHeaders :
                k \notin DOMAIN w.sent /\ k \notin DOMAIN w.header
          /\ \A k \in DOMAIN trace : trace[k].ev # "log"
          /\ w.body = <<APIResponse(FALSE, "", Reason(op.authorization))>>

\* POST /api/users with a token that is not accepted.
C25_Witness ==
    /\ ProtectedRequest
    /\ op.method = "POST"
    /\ op.path = "/api/users"
    /\ op.authorization = "Bearer other"
    /\ w.status = StatusUnauthorized
    /\ Len(trace) = 2

====
